---------------------------- MODULE Spec2Model ----------------------------
(***************************************************************************)
(* The sales dashboard script src/main.py as a state machine.              *)
(*                                                                         *)
(* One run of the script over one uploaded file: load and validate, coerce *)
(* the order dates, derive the calculated columns, read the sidebar        *)
(* filters, export, compute the KPIs.  The script is sequential; pc is its *)
(* position.  What the user supplies (the file, the widget values) is      *)
(* drawn from small sets.                                                  *)
(*                                                                         *)
(* A table cell is a record [t, n, s]: a number (t = "num", value n), a    *)
(* timestamp (t = "date", n in ticks), a text (t = "str", value s) or a    *)
(* missing value NaN/NaT (t = "na").  The money columns Total_Amount,      *)
(* Discount_Amount and Final_Sales_Amount are float64 in the program; here *)
(* they are fixed-point numbers counted in 1/Scale units, which keeps      *)
(* "x * Discount_Percent / 100" exact for whole-number inputs.             *)
(***************************************************************************)
EXTENDS Integers, Sequences, FiniteSets, TLC

\* ------------------------------------------------------------------ bounds

\* Largest number of rows of an uploaded table.
MaxRows == 2
\* Timestamps of one calendar day: tick 0 is midnight, later ticks are later
\* times of that day.
TicksPerDay == 2
\* Calendar days of one month of the model's calendar.
DaysPerMonth == 2
\* Largest number of characters of a customer name in the name files.
MaxNameLen == 4

\* ------------------------------------------------------------------- cells

Num(n) == [t |-> "num", n |-> n, s |-> ""]
Date(ts) == [t |-> "date", n |-> ts, s |-> ""]
Str(s) == [t |-> "str", n |-> 0, s |-> s]
NA == [t |-> "na", n |-> 0, s |-> ""]

\* pd.isna of one cell
IsNa(c) == c.t = "na"

\* The calendar day of a timestamp, and midnight of a day (pd.Timestamp(date)).
DayOf(ts) == ts \div TicksPerDay
Midnight(day) == day * TicksPerDay

\* The calendar of the model: day 0 is the first day of the first month of
\* year 0, every month has DaysPerMonth days, a year twelve months.
MonthOf(day) == day \div DaysPerMonth
DayNames ==
    << "Monday", "Tuesday", "Wednesday", "Thursday", "Friday", "Saturday",
       "Sunday" >>

\* line 220, dt.to_period("M").astype(str): the text "YYYY-MM", held as the
\* pair << year, month >>; texts of this form sort as the pairs do.
Month(ts) ==
    Str(<< MonthOf(DayOf(ts)) \div 12, (MonthOf(DayOf(ts)) % 12) + 1 >>)
\* lines 221-224
Year(ts) == Num(MonthOf(DayOf(ts)) \div 12)
Quarter(ts) == Num(((MonthOf(DayOf(ts)) % 12) \div 3) + 1)
Day_of_Week(ts) == Str(DayNames[(DayOf(ts) % 7) + 1])
Week_of_Year(ts) == Num(((DayOf(ts) % (12 * DaysPerMonth)) \div 7) + 1)

\* ----------------------------------------------------------------- columns

required_cols ==
    << "Order_Date", "Customer_Name", "City", "Product_Category",
       "Product_Name", "Quantity", "Unit_Price", "Discount_Percent",
       "Order_Status", "Delivery_Days" >>

RequiredSet == { required_cols[i] : i \in 1..Len(required_cols) }

\* Column names a file may carry besides the required ones: a name that
\* differs from a required one only by case, and an optional column.
OtherCols == { "order_date", "Payment_Mode" }

\* The columns lines 195-226 assign, in the order of the assignments.
derived_cols ==
    << "Clean_Customer_Name", "Total_Amount", "Discount_Amount",
       "Final_Sales_Amount", "Order_Value_Category", "Delivery_Status",
       "Fast_Delivery_Flag", "Month", "Year", "Quarter", "Day_of_Week",
       "Week_of_Year", "Profit_Margin" >>

\* df.columns after the assignments: a column the file carries keeps its
\* place, a new one is appended.
df_columns(header) ==
    header \o SelectSeq(derived_cols, LAMBDA col :
                  \A i \in 1..Len(header) : header[i] # col)

\* ------------------------------------------------------- validate_dataframe

\* A validator that reports only the first absent column.
missing_cols_first_only(columns) ==
    LET all == SelectSeq(required_cols, LAMBDA col : col \notin columns)
    IN  IF all = << >> THEN << >> ELSE << all[1] >>

\* missing_cols = [col for col in required_cols if col not in df.columns]
missing_cols(columns) ==
    SelectSeq(required_cols, LAMBDA col : col \notin columns)

\* validate_dataframe(df): the pair (is_valid, message).  The message is
\* kept as its text and the names it joins.
validate_dataframe(columns) ==
    LET missing == missing_cols(columns)
    IN  IF missing # << >>
        THEN [ok |-> FALSE, text |-> "Missing required columns", names |-> missing]
        ELSE [ok |-> TRUE, text |-> "Data validation successful", names |-> << >>]

\* ------------------------------------------------------------ text helpers

\* A text is a sequence of one-character strings.
Whitespace == { " ", "\t" }

Upper(ch) ==
    CASE ch = "a" -> "A" [] ch = "b" -> "B" [] ch = "n" -> "N" [] OTHER -> ch
Lower(ch) ==
    CASE ch = "A" -> "a" [] ch = "B" -> "b" [] ch = "N" -> "n" [] OTHER -> ch
IsLetter(ch) == ch \in { "a", "b", "n", "A", "B", "N" }

\* The characters of the names of the name files: whitespace of two kinds,
\* a lower-case and an upper-case letter, a digit.
NameChars == { " ", "\t", "a", "B", "1" }

\* str.strip(): leading and trailing whitespace removed.
RECURSIVE LStrip(_)
LStrip(s) ==
    IF s # << >> /\ Head(s) \in Whitespace THEN LStrip(Tail(s)) ELSE s

RECURSIVE RStrip(_)
RStrip(s) ==
    IF s # << >> /\ s[Len(s)] \in Whitespace
    THEN RStrip(SubSeq(s, 1, Len(s) - 1))
    ELSE s

\* A strip that leaves trailing whitespace.
Strip_LeadingOnly(s) == LStrip(s)

Strip(s) == RStrip(LStrip(s))

\* str.replace(r"\s+", " ", regex=True): each maximal run of whitespace
\* becomes one space.
RECURSIVE CollapseWs(_)
CollapseWs(s) ==
    IF s = << >> THEN << >>
    ELSE IF Head(s) \in Whitespace
         THEN << " " >> \o CollapseWs(LStrip(Tail(s)))
         ELSE << Head(s) >> \o CollapseWs(Tail(s))

\* str.title(): a letter that follows a non-letter (or starts the text) is
\* upper-cased, every other letter lower-cased.
RECURSIVE TitleFrom(_, _)
TitleFrom(s, prevLetter) ==
    IF s = << >> THEN << >>
    ELSE << IF prevLetter THEN Lower(Head(s)) ELSE Upper(Head(s)) >>
         \o TitleFrom(Tail(s), IsLetter(Head(s)))

Title(s) == TitleFrom(s, FALSE)

\* astype(str) of a name cell: a text stays, a missing value reads "nan".
AsTypeStr(c) == IF IsNa(c) THEN << "n", "a", "n" >> ELSE c.s

\* df["Clean_Customer_Name"], lines 192-195
Clean_Customer_Name(c) == Str(Title(CollapseWs(Strip(AsTypeStr(c)))))

\* --------------------------------------------------------------- coercion

\* Fixed-point unit of the money columns: an amount a is held as a * Scale.
Scale == 100

\* Texts that read as a number, and texts that read as a day-first date.
NumericText == [ s \in { "12" } |-> 12 ]
DateText == [ s \in { "02/01/2024" } |-> TicksPerDay ]

\* pd.to_numeric(x, errors='coerce') of one cell: a number stays, a text
\* that reads as a number is that number, anything else is NaN.
ToNumeric(c) ==
    CASE c.t = "num" -> c
      [] c.t = "str" /\ c.s \in DOMAIN NumericText -> Num(NumericText[c.s])
      [] OTHER -> NA

\* pd.to_datetime(x, dayfirst=True, errors="coerce") of one cell: a
\* timestamp stays, a text that reads as a date is that date, anything
\* else is NaT.
ToDatetime(c) ==
    CASE c.t = "date" -> c
      [] c.t = "str" /\ c.s \in DOMAIN DateText -> Date(DateText[c.s])
      [] OTHER -> NA

\* Series.fillna(v) of one cell
FillNa(c, v) == IF IsNa(c) THEN Num(v) ELSE c

\* A clip that leaves the value as it came.
NoClip(c, lo, hi) == c

\* Series.clip(lo, hi) of one numeric cell
Clip(c, lo, hi) ==
    Num(IF c.n < lo THEN lo ELSE IF c.n > hi THEN hi ELSE c.n)

\* pd.to_numeric(col, errors='coerce').fillna(0), lines 197-199
CoerceNumber(c) == FillNa(ToNumeric(c), 0)

\* line 199: Discount_Percent is coerced, then clipped to [0, 100]
CoerceDiscount(c) == Clip(CoerceNumber(c), 0, 100)

\* ----------------------------------------------------------- derived columns

HighValueMin == 30000
MediumValueMin == 10000
FastDeliveryMax == 3

\* line 201: Quantity * Unit_Price (in 1/Scale units)
Total_Amount(q, p) == Num(q.n * p.n * Scale)

\* line 202: Total_Amount * Discount_Percent / 100
Discount_Amount(total, d) == Num((total.n * d.n) \div 100)

\* A final amount that adds the discount.
Final_Sales_Amount_Added(total, disc) == Num(total.n + disc.n)

\* line 203: Total_Amount - Discount_Amount
Final_Sales_Amount(total, disc) == Num(total.n - disc.n)

\* Boundaries taken as exclusive lower bounds.
Order_Value_Category_Exclusive(final) ==
    IF final.n > HighValueMin * Scale THEN Str("High Value")
    ELSE IF final.n > MediumValueMin * Scale THEN Str("Medium Value")
    ELSE Str("Low Value")

\* lines 205-208
Order_Value_Category(final) ==
    IF final.n >= HighValueMin * Scale THEN Str("High Value")
    ELSE IF final.n >= MediumValueMin * Scale THEN Str("Medium Value")
    ELSE Str("Low Value")

\* A delivery status with the two special statuses swapped.
Delivery_Status_Swapped(status) ==
    IF status = Str("Returned") THEN Str("Not Delivered")
    ELSE IF status = Str("Cancelled") THEN Str("Returned")
    ELSE Str("Delivered")

\* lines 210-213
Delivery_Status(status) ==
    IF status = Str("Cancelled") THEN Str("Not Delivered")
    ELSE IF status = Str("Returned") THEN Str("Returned")
    ELSE Str("Delivered")

\* Whether "cell <= 3" can be evaluated: comparing a text with a number
\* raises TypeError; NaN compares False.
Comparable(c) == c.t \in { "num", "na" }

\* cell <= k as pandas evaluates it on a numeric or missing cell
LessEq(c, k) == c.t = "num" /\ c.n <= k

\* A flag that never tests for a missing value.
Fast_Delivery_Flag_NoNa(dd) ==
    IF LessEq(dd, FastDeliveryMax) THEN Str("Fast Delivery")
    ELSE Str("Normal Delivery")

\* lines 215-218
Fast_Delivery_Flag(dd) ==
    IF IsNa(dd) THEN Str("NA")
    ELSE IF LessEq(dd, FastDeliveryMax) THEN Str("Fast Delivery")
    ELSE Str("Normal Delivery")

\* The columns lines 192-224 add to one row.
DeriveRow(r) ==
    LET name == Clean_Customer_Name(r["Customer_Name"])
        q == CoerceNumber(r["Quantity"])
        p == CoerceNumber(r["Unit_Price"])
        d == CoerceDiscount(r["Discount_Percent"])
        total == Total_Amount(q, p)
        disc == Discount_Amount(total, d)
        final == Final_Sales_Amount(total, disc)
    IN  ( "Clean_Customer_Name" :> name
          @@ "Quantity" :> q
          @@ "Unit_Price" :> p
          @@ "Discount_Percent" :> d
          @@ "Total_Amount" :> total
          @@ "Discount_Amount" :> disc
          @@ "Final_Sales_Amount" :> final
          @@ "Order_Value_Category" :> Order_Value_Category(final)
          @@ "Delivery_Status" :> Delivery_Status(r["Order_Status"])
          @@ "Fast_Delivery_Flag" :> Fast_Delivery_Flag(r["Delivery_Days"])
          @@ "Month" :> Month(r["Order_Date"].n)
          @@ "Year" :> Year(r["Order_Date"].n)
          @@ "Quarter" :> Quarter(r["Order_Date"].n)
          @@ "Day_of_Week" :> Day_of_Week(r["Order_Date"].n)
          @@ "Week_of_Year" :> Week_of_Year(r["Order_Date"].n) )
        @@ r

\* Whether lines 192-218 raise on a table: line 217 compares the whole
\* Delivery_Days column with 3.
DeriveRaises(table) ==
    \E i \in 1..Len(table) : ~Comparable(table[i]["Delivery_Days"])

\* The float quotient a / b of two numbers: the exact fraction with a
\* positive denominator (t = "ratio", n over s), NaN for 0 / 0, an infinity
\* for any other division by a zero (numpy scalars do not raise).
Ratio(a, b) == [t |-> "ratio", n |-> a, s |-> b]
Inf(sign) == [t |-> "inf", n |-> sign, s |-> ""]
Div(a, b) ==
    IF b = 0 THEN (IF a = 0 THEN NA ELSE Inf(IF a > 0 THEN 1 ELSE -1))
    ELSE IF b < 0 THEN Ratio(-a, -b)
    ELSE Ratio(a, b)

\* A pandas Series as the result of a computation.
Series(cells) == [t |-> "series", n |-> 0, s |-> cells]

\* safe_calculation(func, default), lines 135-142.  A scalar result is
\* returned unless it is NaN or infinite.  "pd.isna(result) or ..." on a
\* Series raises ValueError (its truth value is ambiguous), as does a func
\* that raises: the default is returned.
safe_calculation(result, default) ==
    IF result.t \in { "num", "ratio" } THEN result ELSE Num(default)

\* line 226, the lambda's result: (Final_Sales_Amount / Total_Amount * 100)
\* with fillna(0), one value per row; 0 / 0 is NaN.
ProfitMarginSeries(table) ==
    Series([ i \in 1..Len(table) |->
        IF table[i]["Total_Amount"].n = 0 THEN Num(0)
        ELSE Num((table[i]["Final_Sales_Amount"].n * 100)
                    \div table[i]["Total_Amount"].n) ])

\* lines 192-226 on a table: the row-wise columns, then Profit_Margin, the
\* scalar safe_calculation returns, in every row.
DeriveTable(table) ==
    LET rows == [ i \in 1..Len(table) |-> DeriveRow(table[i]) ]
        margin == safe_calculation(ProfitMarginSeries(rows), 0)
    IN  [ i \in 1..Len(rows) |-> ("Profit_Margin" :> margin) @@ rows[i] ]

\* ------------------------------------------------------------------ tables

\* The timestamp of tick k of a day.
At(day, k) == day * TicksPerDay + k

\* pd.read_excel gives the rows the index 0, 1, 2, ...; a row keeps its
\* index label through dropna and the filters.
Index == "(index)"
WithIndex(rows) ==
    [ i \in 1..Len(rows) |-> (Index :> Num(i - 1)) @@ rows[i] ]

Column(table, col) == [ i \in 1..Len(table) |-> table[i][col] ]

Values(table, col) == { table[i][col] : i \in 1..Len(table) }

RECURSIVE SumN(_)
SumN(cells) ==
    IF cells = << >> THEN 0 ELSE Head(cells).n + SumN(Tail(cells))

MinOf(S) == CHOOSE x \in S : \A y \in S : x <= y
MaxOf(S) == CHOOSE x \in S : \A y \in S : y <= x

\* A selection that loses the first row it matched.
IsIn_SkipFirst(table, col, selected) ==
    LET hit == SelectSeq(table, LAMBDA r : r[col] \in selected)
    IN  SubSeq(hit, 2, Len(hit))

\* df[df[col].isin(selected)]
IsIn(table, col, selected) ==
    SelectSeq(table, LAMBDA r : r[col] \in selected)

\* sorted(values) raises TypeError when it has to order a text against a
\* number or NaN.
SortRaises(cells) == \E a, b \in cells : (a.t = "str") # (b.t = "str")

\* ------------------------------------------------------------------- state

VARIABLES
    file,            \* the uploaded spreadsheet: [columns, header, rows]
    pc,              \* position of the script
    df,              \* the working table
    is_valid,        \* validate_dataframe's verdict
    message,         \* validate_dataframe's message
    invalid_dates,   \* rows whose Order_Date did not parse
    date_range,      \* the date widget's value: one or two days
    city,            \* the four multiselects' values
    category,
    order_status,
    value_category,
    csv,             \* the lines of the file behind the download button
    kpi,             \* the aggregates of lines 267-276
    charts,          \* the tables behind the charts of the tabs
    ui,              \* the alert boxes rendered so far
    done             \* the steps of the script completed so far

vars == << file, pc, df, is_valid, message, invalid_dates, date_range, city,
           category, order_status, value_category, csv, kpi, charts, ui,
           done >>

filters == << date_range, city, category, order_status, value_category >>

Alert(cls, text, names, n) ==
    [cls |-> cls, text |-> text, names |-> names, n |-> n]

NoMessage == [ok |-> FALSE, text |-> "", names |-> << >>]
NoKpi ==
    [total_sales |-> 0, total_orders |-> 0, total_items |-> 0,
     discount_given |-> 0, customers |-> 0, avg_order |-> Num(0),
     avg_delivery_days |-> Num(0), conversion_rate |-> Num(0),
     return_rate |-> Num(0), sales_growth |-> Num(0),
     orders_per_customer |-> Num(0), items_per_order |-> Num(0),
     discount_delta |-> Num(0), discount_share |-> Num(0)]

\* No chart has been drawn.
NoCharts ==
    [city_sales |-> << >>, monthly |-> << >>, prod |-> << >>,
     prod_qty |-> << >>, cust |-> << >>]

\* ------------------------------------------------------------------- files

AllColumns == RequiredSet \cup OtherCols

\* Files that lack a required column; their one row holds a text per column.
InvalidFiles ==
    { [columns |-> cs,
       header |-> SelectSeq(required_cols \o << "order_date", "Payment_Mode" >>,
                            LAMBDA c : c \in cs),
       rows |-> << [c \in cs |-> Str("x")] >>] :
        cs \in { x \in SUBSET AllColumns : ~(RequiredSet \subseteq x) } }

Tables(rows, lo, hi) == UNION { [1..k -> rows] : k \in lo..hi }

ValidFiles(rows, lo, hi) ==
    { [columns |-> RequiredSet, header |-> required_cols, rows |-> t] :
        t \in Tables(rows, lo, hi) }

SampleRow ==
    [Order_Date |-> Date(At(0, 0)), Customer_Name |-> Str(<< "a" >>),
     City |-> Str("Pune"), Product_Category |-> Str("Books"),
     Product_Name |-> Str("Pen"), Quantity |-> Num(1),
     Unit_Price |-> Num(12000), Discount_Percent |-> Num(10),
     Order_Status |-> Str("Delivered"), Delivery_Days |-> Num(2)]

\* Valid files that carry further columns, ahead of the required ones.
ExtraColumnFiles ==
    { [columns |-> RequiredSet \cup xs,
       header |-> SelectSeq(<< "Payment_Mode", "order_date" >>,
                            LAMBDA c : c \in xs) \o required_cols,
       rows |-> << [c \in xs |-> Str("x")] @@ SampleRow >>] :
        xs \in (SUBSET OtherCols) \ { {} } }

\* Rows that differ in date, time of day and city.
PipelineRows ==
    [Order_Date :
        { Date(At(0, 0)), Date(At(1, 1)), Str("02/01/2024"),
          Str("not a date") },
     Customer_Name : { Str(<< "a" >>) },
     City : { Str("Pune"), Str("Delhi") },
     Product_Category : { Str("Books") },
     Product_Name : { Str("Pen") },
     Quantity : { Num(1) },
     Unit_Price : { Num(12000) },
     Discount_Percent : { Num(10) },
     Order_Status : { Str("Delivered") },
     Delivery_Days : { Num(2), Str("soon") }]

PipelineFiles ==
    InvalidFiles \cup ExtraColumnFiles \cup ValidFiles(PipelineRows, 0, MaxRows)

\* ------------------------------------------------------------------ script

InitWith(files) ==
    /\ file \in files
    /\ pc = "start"
    /\ df = << >>
    /\ is_valid = FALSE
    /\ message = NoMessage
    /\ invalid_dates = 0
    /\ date_range = << >>
    /\ city = {}
    /\ category = {}
    /\ order_status = {}
    /\ value_category = {}
    /\ csv = << >>
    /\ kpi = NoKpi
    /\ charts = NoCharts
    /\ ui = << >>
    /\ done = {}

\* A script that goes on after a failed validation.
AfterValidate_NoStop(ok) == "coerce"

\* lines 178-182: st.stop() ends the run when the table is not valid.
\* StopException is not an Exception: the handler of line 1188 lets it pass.
AfterValidate(ok) == IF ok THEN "coerce" ELSE "stopped"

\* lines 1188-1190: the outer handler renders the generic error; the step
\* that raised is not completed.
Raise(step) ==
    /\ pc' = "error"
    /\ ui' = Append(ui, Alert("alert-error", "Error", << >>, 0))
    /\ done' = done

\* df[col] raises KeyError when the table has no such column.
HasColumns(names) == names \subseteq file.columns

\* lines 174-182: read the file, validate, stop on failure.
LoadAndValidate ==
    /\ pc = "start"
    /\ LET v == validate_dataframe(file.columns)
       IN  /\ df' = WithIndex(file.rows)
           /\ is_valid' = v.ok
           /\ message' = v
           /\ ui' = Append(ui,
                     IF v.ok
                     THEN Alert("alert-success", "Data loaded successfully",
                                << >>, Len(file.rows))
                     ELSE Alert("alert-error", v.text, v.names, 0))
           /\ pc' = AfterValidate(v.ok)
    /\ done' = done \cup { "validate" }
    /\ UNCHANGED << file, invalid_dates, filters, csv, kpi, charts >>

\* line 190: df.dropna(subset=["Order_Date"])
DropNaT(table) == SelectSeq(table, LAMBDA r : ~IsNa(r["Order_Date"]))

\* lines 184-190: coerce Order_Date, count and report the rows that did not
\* parse, drop them.
CoerceDates ==
    /\ pc = "coerce"
    /\ IF ~HasColumns({ "Order_Date" })
       THEN /\ Raise("coerce")
            /\ UNCHANGED << df, invalid_dates >>
       ELSE LET conv == [ i \in 1..Len(df) |->
                           [ df[i] EXCEPT !["Order_Date"] = ToDatetime(@) ] ]
                bad == Cardinality({ i \in 1..Len(df) :
                                       IsNa(conv[i]["Order_Date"]) })
            IN  /\ invalid_dates' = bad
                /\ ui' = IF bad > 0
                         THEN Append(ui, Alert("alert-warning",
                                  "records have invalid dates", << >>, bad))
                         ELSE ui
                /\ df' = DropNaT(conv)
                /\ pc' = "derive"
                /\ done' = done \cup { "coerce" }
    /\ UNCHANGED << file, is_valid, message, filters, csv, kpi, charts >>

\* lines 192-226: attach the derived columns.
Derive ==
    /\ pc = "derive"
    /\ IF \/ ~HasColumns({ "Customer_Name", "Quantity", "Unit_Price",
                          "Discount_Percent", "Order_Status",
                          "Delivery_Days" })
          \/ DeriveRaises(df)
       THEN /\ Raise("derive")
            /\ UNCHANGED df
       ELSE /\ df' = DeriveTable(df)
            /\ pc' = "date_filter"
            /\ ui' = ui
            /\ done' = done \cup { "derive" }
    /\ UNCHANGED << file, is_valid, message, invalid_dates, filters, csv, kpi, charts >>

\* What st.date_input can return for a range between two days: the start
\* day alone (the end not picked yet) or a start and an end.
DateRanges(lo, hi) ==
    { << a >> : a \in lo..hi }
      \cup { r \in (lo..hi) \X (lo..hi) : r[1] <= r[2] }

\* A date filter that first rewrites every Order_Date to its midnight.
DateRangeFilter_Normalized(table, range) ==
    LET norm == [ i \in 1..Len(table) |->
                    [ table[i] EXCEPT
                        !["Order_Date"] = Date(Midnight(DayOf(@.n))) ] ]
    IN  SelectSeq(norm, LAMBDA r :
            /\ r["Order_Date"].n >= Midnight(range[1])
            /\ r["Order_Date"].n <= Midnight(range[2]))

\* lines 238-239: both ends are pd.Timestamp(date), midnight of that day.
DateRangeFilter(table, range) ==
    SelectSeq(table, LAMBDA r :
        /\ r["Order_Date"].n >= Midnight(range[1])
        /\ r["Order_Date"].n <= Midnight(range[2]))

\* lines 228-239: the date widget and the date-range filter.  On an empty
\* table min() and max() are NaT, and what the widget makes of NaT is the
\* library's business: it raises, or the script goes on with no range.
DateFilter ==
    /\ pc = "date_filter"
    /\ \/ /\ df = << >>
          /\ Raise("date_filter")
          /\ UNCHANGED << df, date_range >>
       \/ /\ df = << >>
          /\ UNCHANGED << df, date_range, ui >>
          /\ pc' = "facets"
          /\ done' = done \cup { "date_filter" }
       \/ /\ df # << >>
          /\ LET days == { DayOf(c.n) : c \in Values(df, "Order_Date") }
             IN  \E range \in DateRanges(MinOf(days), MaxOf(days)) :
                    /\ date_range' = range
                    /\ df' = IF Len(range) = 2
                             THEN DateRangeFilter(df, range)
                             ELSE df
          /\ pc' = "facets"
          /\ ui' = ui
          /\ done' = done \cup { "date_filter" }
    /\ UNCHANGED << file, is_valid, message, invalid_dates, city, category,
                    order_status, value_category, csv, kpi, charts >>

\* A facet whose empty selection selects nothing.
ApplyFacet_Always(table, col, selected) == IsIn(table, col, selected)

\* lines 246-253, one facet: "if selected: df = df[df[col].isin(selected)]"
ApplyFacet(table, col, selected) ==
    IF selected # {} THEN IsIn(table, col, selected) ELSE table

\* lines 246-253: the four facets, one after the other.
FacetFilter(table, c, cat, st, vc) ==
    ApplyFacet(
        ApplyFacet(
            ApplyFacet(
                ApplyFacet(table, "City", c),
                "Product_Category", cat),
            "Order_Status", st),
        "Order_Value_Category", vc)

ValueCategories ==
    { Str("High Value"), Str("Medium Value"), Str("Low Value") }

\* What to_csv writes for one cell: nothing for a missing value, the
\* numeral of a number, the date text of a timestamp, a text as it is.
CsvField(c) ==
    IF IsNa(c) THEN Str("")
    ELSE IF c.t \in { "num", "ratio" } THEN [ c EXCEPT !.t = "numeral" ]
    ELSE IF c.t = "date" THEN [ c EXCEPT !.t = "datetext" ]
    ELSE c

\* An export of the required columns alone.
create_download_button_RequiredOnly(table, columns) ==
    << required_cols >> \o
    [ i \in 1..Len(table) |->
        [ col \in RequiredSet |-> CsvField(table[i][col]) ] ]

\* create_download_button(df), lines 161-163 and 256-261: the lines
\* df.to_csv(index=False) writes, the header line and then one line per row
\* with a field per column, the index left out.
create_download_button(table, columns) ==
    << columns >> \o
    [ i \in 1..Len(table) |->
        [ col \in { columns[k] : k \in 1..Len(columns) } |->
            CsvField(table[i][col]) ] ]

\* What the user may pick in a multiselect: any of its options, or, for a
\* user who leaves the multiselects alone, nothing.
Selections(options, any) == IF any THEN SUBSET options ELSE { {} }

\* lines 241-261: the four multiselects (their options are the values of
\* the date-filtered table), the facet filters, the download button.
FacetsWith(any) ==
    /\ pc = "facets"
    /\ IF \/ ~HasColumns({ "City", "Product_Category" })
          \/ SortRaises(Values(df, "City"))
          \/ SortRaises(Values(df, "Product_Category"))
          \/ SortRaises(Values(df, "Order_Status"))
       THEN /\ Raise("facets")
            /\ UNCHANGED << df, city, category, order_status,
                            value_category, csv >>
       ELSE \E c \in Selections(Values(df, "City"), any),
               cat \in Selections(Values(df, "Product_Category"), any),
               st \in Selections(Values(df, "Order_Status"), any),
               vc \in Selections(ValueCategories, any) :
                /\ city' = c
                /\ category' = cat
                /\ order_status' = st
                /\ value_category' = vc
                /\ df' = FacetFilter(df, c, cat, st, vc)
                /\ csv' = create_download_button(df', df_columns(file.header))
                /\ pc' = "kpis"
                /\ ui' = ui
                /\ done' = done \cup { "facets", "export" }
    /\ UNCHANGED << file, is_valid, message, invalid_dates, date_range, kpi,
                    charts >>

Facets == FacetsWith(TRUE)
FacetsUnselected == FacetsWith(FALSE)

\* Series.mean(): the mean of the cells that are present, NaN when none is.
Present(cells) == SelectSeq(cells, LAMBDA c : ~IsNa(c))
Mean(cells) == Div(SumN(Present(cells)), Len(Present(cells)))

\* (df[col] == value).sum()
CountEq(table, col, value) ==
    Cardinality({ i \in 1..Len(table) : table[i][col] = value })

\* The order of the Month texts "YYYY-MM", which is the order of time.
MonthBefore(a, b) ==
    a.s[1] < b.s[1] \/ (a.s[1] = b.s[1] /\ a.s[2] < b.s[2])

RECURSIVE SortMonths(_)
SortMonths(S) ==
    IF S = {} THEN << >>
    ELSE LET first == CHOOSE m \in S : \A x \in S \ { m } : MonthBefore(m, x)
         IN  << first >> \o SortMonths(S \ { first })

\* lines 278-281: df.groupby("Month") with the sum of Final_Sales_Amount and
\* the count of Order_Date, one row per month in the order of the keys.
monthly_df(table) ==
    LET keys == SortMonths(Values(table, "Month"))
    IN  [ k \in 1..Len(keys) |->
            LET rows == SelectSeq(table, LAMBDA r : r["Month"] = keys[k])
            IN  [Month |-> keys[k],
                 Final_Sales_Amount |->
                    Num(SumN(Column(rows, "Final_Sales_Amount"))),
                 Order_Date |-> Num(Len(rows))] ]

\* A growth rate that divides by the current value.
calculate_growth_rate_OverCurrent(current, previous) ==
    IF (previous.t = "num" /\ previous.n = 0) \/ IsNa(previous)
          \/ IsNa(current)
    THEN Num(0)
    ELSE Div((current.n - previous.n) * 100, current.n)

\* calculate_growth_rate(current, previous), lines 144-147
calculate_growth_rate(current, previous) ==
    IF (previous.t = "num" /\ previous.n = 0) \/ IsNa(previous)
          \/ IsNa(current)
    THEN Num(0)
    ELSE Div((current.n - previous.n) * 100, previous.n)

\* lines 283-288
sales_growth(monthly) ==
    IF Len(monthly) >= 2
    THEN calculate_growth_rate(monthly[Len(monthly)].Final_Sales_Amount,
                               monthly[Len(monthly) - 1].Final_Sales_Amount)
    ELSE Num(0)

\* A conversion rate read off the derived Delivery_Status column.
conversion_rate_ByDeliveryStatus(table) ==
    Div(CountEq(table, "Delivery_Status", Str("Delivered")) * 100, Len(table))

\* line 275, the lambda's result
conversion_rate(table) ==
    Div(CountEq(table, "Order_Status", Str("Delivered")) * 100, Len(table))

\* line 276, the lambda's result
return_rate(table) ==
    Div(CountEq(table, "Order_Status", Str("Returned")) * 100, Len(table))

\* line 350: discount_given / total_sales * 100, evaluated as it stands to
\* pick the colour of the discount card.
discount_delta(discount_given, total_sales) ==
    Div(discount_given * 100, total_sales)

\* lines 267-360: the aggregates and the figures of the KPI cards.  The sums
\* and counts are held as numbers, the quotients as cells.
Aggregates(table) ==
    LET total_sales ==
            safe_calculation(
                Num(SumN(Column(table, "Final_Sales_Amount"))), 0).n
        total_orders == Len(table)
        total_items ==
            safe_calculation(Num(SumN(Column(table, "Quantity"))), 0).n
        discount_given ==
            safe_calculation(
                Num(SumN(Column(table, "Discount_Amount"))), 0).n
        customers ==
            safe_calculation(
                Num(Cardinality(Values(table, "Clean_Customer_Name"))), 0).n
    IN  [total_sales |-> total_sales,
         total_orders |-> total_orders,
         total_items |-> total_items,
         discount_given |-> discount_given,
         customers |-> customers,
         avg_order |->
            safe_calculation(Mean(Column(table, "Final_Sales_Amount")), 0),
         avg_delivery_days |->
            safe_calculation(Mean(Column(table, "Delivery_Days")), 0),
         conversion_rate |-> safe_calculation(conversion_rate(table), 0),
         return_rate |-> safe_calculation(return_rate(table), 0),
         sales_growth |-> sales_growth(monthly_df(table)),
         orders_per_customer |->
            safe_calculation(
                IF customers > 0 THEN Div(total_orders, customers)
                ELSE Num(0), 0),
         items_per_order |->
            safe_calculation(
                IF total_orders > 0 THEN Div(total_items, total_orders)
                ELSE Num(0), 0),
         discount_delta |-> discount_delta(discount_given, total_sales),
         discount_share |->
            safe_calculation(
                IF total_sales > 0 THEN Div(discount_given * 100, total_sales)
                ELSE Num(0), 0)]

\* A script that never takes the result for empty.
EmptyResult_Never(table) == FALSE

\* line 263: len(df) == 0
EmptyResult(table) == Len(table) = 0

\* lines 263-360: stop on an empty result, else compute the aggregates and
\* render the KPI cards.
KPIs ==
    /\ pc = "kpis"
    /\ IF EmptyResult(df)
       THEN /\ ui' = Append(ui, Alert("alert-warning",
                        "No data matches your filter criteria", << >>, 0))
            /\ pc' = "stopped"
            /\ UNCHANGED << kpi, done >>
       ELSE /\ kpi' = Aggregates(df)
            /\ pc' = "done"
            /\ ui' = ui
            /\ done' = done \cup { "kpis" }
    /\ UNCHANGED << file, df, is_valid, message, invalid_dates, filters, csv,
                    charts >>

Next ==
    \/ LoadAndValidate
    \/ CoerceDates
    \/ Derive
    \/ DateFilter
    \/ Facets
    \/ KPIs

\* The script over files whose rows differ in date, time of day and city.
Init == InitWith(PipelineFiles)
Spec == Init /\ [][Next]_vars

\* The script up to the derived columns, over one-row files whose numeric,
\* status and delivery cells take every kind of value.
DeriveRows ==
    [Order_Date : { Date(At(0, 1)) },
     Customer_Name : { Str(<< "a" >>) },
     City : { Str("Pune") },
     Product_Category : { Str("Books") },
     Product_Name : { Str("Pen") },
     Quantity : { Num(-1), Num(0), Num(2), Str("12"), Str("abc"), NA },
     Unit_Price : { Num(5000), Num(15000), Str("abc"), NA },
     Discount_Percent :
        { Num(-5), Num(0), Num(10), Num(150), Str("abc"), NA },
     Order_Status :
        { Str("Cancelled"), Str("Returned"), Str("Delivered"),
          Str("Pending"), Str("cancelled"), NA },
     Delivery_Days : { Num(2), Num(3), Num(5), Str("soon"), NA }]

DeriveFiles == ExtraColumnFiles \cup ValidFiles(DeriveRows, 1, 1)

InitDerive == InitWith(DeriveFiles)
NextDerive ==
    \/ LoadAndValidate
    \/ CoerceDates
    \/ Derive
SpecDerive == InitDerive /\ [][NextDerive]_vars

\* The whole script over files whose rows share one date and differ in
\* city, category and order value.
FacetRows ==
    [Order_Date : { Date(At(0, 0)) },
     Customer_Name : { Str(<< "a" >>) },
     City : { Str("Pune"), Str("Delhi") },
     Product_Category : { Str("Books"), Str("Toys") },
     Product_Name : { Str("Pen") },
     Quantity : { Num(1) },
     Unit_Price : { Num(5000), Num(35000) },
     Discount_Percent : { Num(0) },
     Order_Status : { Str("Delivered") },
     Delivery_Days : { Num(2) }]

FacetFiles == ExtraColumnFiles \cup ValidFiles(FacetRows, 0, MaxRows)

InitFacets == InitWith(FacetFiles)
SpecFacets == InitFacets /\ [][Next]_vars

\* The whole script, the multiselects left alone, over files whose rows
\* share one date and differ in quantity, discount, order status and
\* delivery days: tables with total sales 0, with no delivery days at all.
KpiRows ==
    [Order_Date : { Date(At(0, 0)) },
     Customer_Name : { Str(<< "a" >>) },
     City : { Str("Pune") },
     Product_Category : { Str("Books") },
     Product_Name : { Str("Pen") },
     Quantity : { Num(0), Num(1) },
     Unit_Price : { Num(12000) },
     Discount_Percent : { Num(0), Num(100) },
     Order_Status : { Str("Delivered"), Str("Returned"), Str("Pending") },
     Delivery_Days : { Num(2), Num(5), NA }]

KpiFiles == ValidFiles(KpiRows, 1, MaxRows)

InitKpi == InitWith(KpiFiles)
NextKpi ==
    \/ LoadAndValidate
    \/ CoerceDates
    \/ Derive
    \/ DateFilter
    \/ FacetsUnselected
    \/ KPIs
SpecKpi == InitKpi /\ [][NextKpi]_vars

\* lines 169-174 and 1192-1193, on the file the download button gave: a new
\* run of the script with filtered_sales_data.csv offered to the uploader.
\* The uploader takes files of type xlsx only, so the script sees no file and
\* renders the upload prompt; offered under a name that ends in .xlsx, the
\* file reaches pd.read_excel, which raises on CSV text, and the handler of
\* line 1188 renders the generic error.  Neither run has a table.
UploadExport ==
    /\ pc \in { "done", "stopped" }
    /\ "export" \in done
    /\ \/ /\ pc' = "no_file"
          /\ ui' = << Alert("alert-info", "Please upload an Excel file",
                            << >>, 0) >>
       \/ /\ pc' = "error"
          /\ ui' = << Alert("alert-error", "Error", << >>, 0) >>
    /\ done' = { "upload_export" }
    /\ df' = << >>
    /\ is_valid' = FALSE
    /\ message' = NoMessage
    /\ invalid_dates' = 0
    /\ date_range' = << >>
    /\ city' = {} /\ category' = {} /\ order_status' = {}
    /\ value_category' = {}
    /\ kpi' = NoKpi
    /\ charts' = NoCharts
    /\ UNCHANGED << file, csv >>

\* The whole script, the multiselects left alone, followed by the upload of
\* the exported file.
NextRoundTrip ==
    \/ LoadAndValidate
    \/ CoerceDates
    \/ Derive
    \/ DateFilter
    \/ FacetsUnselected
    \/ KPIs
    \/ UploadExport
SpecRoundTrip == InitKpi /\ [][NextRoundTrip]_vars

\* The whole script, the multiselects left alone, over files whose rows
\* fall in three months, in any order, and differ in quantity.
MonthRows ==
    [Order_Date :
        { Date(At(0, 0)), Date(At(DaysPerMonth, 0)),
          Date(At(2 * DaysPerMonth, 0)) },
     Customer_Name : { Str(<< "a" >>) },
     City : { Str("Pune") },
     Product_Category : { Str("Books") },
     Product_Name : { Str("Pen") },
     Quantity : { Num(0), Num(1), Num(2) },
     Unit_Price : { Num(2) },
     Discount_Percent : { Num(0) },
     Order_Status : { Str("Delivered") },
     Delivery_Days : { Num(2) }]

MonthFiles == ValidFiles(MonthRows, 1, MaxRows)

InitMonths == InitWith(MonthFiles)
SpecMonths == InitMonths /\ [][NextKpi]_vars

\* The script up to the derived columns, over one-row files whose customer
\* name is any text of up to MaxNameLen characters or is missing.
NameRows ==
    { [ SampleRow EXCEPT !.Customer_Name = name ] :
        name \in { NA } \cup
            { Str(t) : t \in UNION { [1..k -> NameChars] : k \in 0..MaxNameLen } } }

NameFiles == ValidFiles(NameRows, 1, 1)

InitNames == InitWith(NameFiles)
SpecNames == InitNames /\ [][NextDerive]_vars

\* -------------------------------------------------------------------- tabs

\* The length of the rankings, head(15).
TopN == 15

\* DataFrame.head(n)
head(rows, n) == SubSeq(rows, 1, IF Len(rows) < n THEN Len(rows) ELSE n)

RemoveAt(s, i) == SubSeq(s, 1, i - 1) \o SubSeq(s, i + 1, Len(s))

\* df.groupby(col).agg(sum of Final_Sales_Amount, sum of Quantity, count of
\* Order_Date): one row per value of the column.  The groups are listed in
\* the order their first rows have in the table; the program lists them in
\* the order of the keys, which matters to no figure and, in a later sort,
\* to the order of ties alone.
group_by(table, col) ==
    LET firsts == SelectSeq(table, LAMBDA r :
                     \A j \in 1..Len(table) :
                        table[j][col] = r[col] =>
                            table[j][Index].n >= r[Index].n)
    IN  [ k \in 1..Len(firsts) |->
            LET rows == SelectSeq(table, LAMBDA r : r[col] = firsts[k][col])
            IN  [Key |-> firsts[k][col],
                 Sales |-> SumN(Column(rows, "Final_Sales_Amount")),
                 Quantity |-> SumN(Column(rows, "Quantity")),
                 Orders |-> Len(rows)] ]

\* A sort that puts the smallest value first.
RECURSIVE sort_values_Ascending(_, _, _)
sort_values_Ascending(rows, field, last) ==
    IF rows = << >> THEN << >>
    ELSE LET best == { i \in 1..Len(rows) :
                         \A j \in 1..Len(rows) :
                            rows[j][field] >= rows[i][field] }
             i == IF last THEN MaxOf(best) ELSE MinOf(best)
         IN  << rows[i] >> \o sort_values_Ascending(RemoveAt(rows, i), field, last)

\* sort_values(field, ascending=False): the rows by decreasing value.  The
\* order of rows with equal values is the sort algorithm's; of two such rows
\* the one listed earlier comes first, or, with last, the one listed later.
RECURSIVE sort_values(_, _, _)
sort_values(rows, field, last) ==
    IF rows = << >> THEN << >>
    ELSE LET best == { i \in 1..Len(rows) :
                         \A j \in 1..Len(rows) :
                            rows[j][field] <= rows[i][field] }
             i == IF last THEN MaxOf(best) ELSE MinOf(best)
         IN  << rows[i] >> \o sort_values(RemoveAt(rows, i), field, last)

\* lines 414-415
city_sales(table, last) ==
    head(sort_values(group_by(table, "City"), "Sales", last), TopN)

\* lines 652-658
prod(table, last) ==
    head(sort_values(group_by(table, "Product_Name"), "Sales", last), TopN)

\* line 687: prod.sort_values("Quantity", ascending=False).head(15), of the
\* prod of line 658
prod_qty(ranked, last) ==
    head(sort_values(ranked, "Quantity", last), TopN)

\* lines 753-759
cust(table, last) ==
    head(sort_values(group_by(table, "Clean_Customer_Name"), "Sales", last),
         TopN)

\* A monthly table that counts one order a month.
monthly_OneOrder(table) ==
    LET keys == SortMonths(Values(table, "Month"))
    IN  [ k \in 1..Len(keys) |->
            LET rows == SelectSeq(table, LAMBDA r : r["Month"] = keys[k])
            IN  [Month |-> keys[k],
                 Sales |-> SumN(Column(rows, "Final_Sales_Amount")),
                 Orders |-> 1,
                 Items |-> SumN(Column(rows, "Quantity"))] ]

\* lines 521-526: df.groupby("Month") with the sum of Final_Sales_Amount, the
\* count of Order_Date and the sum of Quantity.
monthly(table) ==
    LET keys == SortMonths(Values(table, "Month"))
    IN  [ k \in 1..Len(keys) |->
            LET rows == SelectSeq(table, LAMBDA r : r["Month"] = keys[k])
            IN  [Month |-> keys[k],
                 Sales |-> SumN(Column(rows, "Final_Sales_Amount")),
                 Orders |-> Len(Present(Column(rows, "Order_Date"))),
                 Items |-> SumN(Column(rows, "Quantity"))] ]

\* lines 380-942: the tabs Overview, Trends, Products, Customers and
\* Delivery, after the KPI cards.  Their tables are groupings of df.
Tabs ==
    /\ pc = "done"
    /\ \E last \in BOOLEAN :
          LET ranked == prod(df, last)
          IN  charts' = [city_sales |-> city_sales(df, last),
                         monthly |-> monthly(df),
                         prod |-> ranked,
                         prod_qty |-> prod_qty(ranked, last),
                         cust |-> cust(df, last)]
    /\ pc' = "tab6"
    /\ done' = done \cup { "tabs" }
    /\ UNCHANGED << file, df, is_valid, message, invalid_dates, filters, csv,
                    kpi, ui >>

\* A sequence of numbers in increasing order.
RECURSIVE SortNums(_)
SortNums(xs) ==
    IF xs = << >> THEN << >>
    ELSE LET i == CHOOSE i \in 1..Len(xs) : \A j \in 1..Len(xs) : xs[i] <= xs[j]
         IN  << xs[i] >> \o SortNums(RemoveAt(xs, i))

\* Three times the quantile of order k / 3 of the numbers, by linear
\* interpolation between the two nearest of them.
Tercile3(xs, k) ==
    LET sorted == SortNums(xs)
        i == (k * (Len(xs) - 1)) \div 3
        r == (k * (Len(xs) - 1)) % 3
    IN  IF r = 0 THEN 3 * sorted[i + 1]
        ELSE 3 * sorted[i + 1] + r * (sorted[i + 2] - sorted[i + 1])

\* pd.qcut(values, q=3, labels=<three labels>, duplicates='drop') raises
\* ValueError when two of the four bin edges coincide: an edge is dropped and
\* the labels are no longer one fewer than the edges.
QcutRaises(xs) == Cardinality({ Tercile3(xs, k) : k \in 0..3 }) < 4

\* lines 951-968: pd.cut raises ValueError when the bins do not increase;
\* for a largest discount of at most 20 the bins are 0, 5, 10, 15 and that
\* discount plus 0.01.
DiscountCutRaises(table) ==
    LET max_discount ==
            MaxOf({ c.n : c \in Values(table, "Discount_Percent") })
    IN  max_discount * 100 + 1 <= 15 * 100

\* lines 1070-1078: recency, monetary value and frequency per customer, each
\* cut into terciles.
RfmRaises(table) ==
    LET groups == group_by(table, "Clean_Customer_Name")
        newest == MaxOf({ c.n : c \in Values(table, "Order_Date") })
        recency == [ k \in 1..Len(groups) |->
            (newest - MaxOf({ r["Order_Date"].n : r \in
                        { table[i] : i \in { j \in 1..Len(table) :
                            table[j]["Clean_Customer_Name"] = groups[k].Key } } }))
                \div TicksPerDay ]
        frequency == [ k \in 1..Len(groups) |-> groups[k].Orders ]
        monetary == [ k \in 1..Len(groups) |-> groups[k].Sales ]
    IN  QcutRaises(recency) \/ QcutRaises(frequency) \/ QcutRaises(monetary)

\* lines 943-1183: the Advanced Analytics tab.  The body of the try of line
\* 944 ends with the discount chart (line 1010): basket size, funnel, RFM
\* scoring, growth chart and insights (lines 1011-1179) are indented as the
\* try itself, so they are not in its body, and the except of line 1181
\* follows them.  (Python takes this layout for a syntax error.)  An exception
\* of the body goes to the tab's handler, which renders its message; one
\* raised after the body is not covered by it and goes to the handler of
\* line 1188.
Tab6 ==
    /\ pc = "tab6"
    /\ IF DiscountCutRaises(df)
       THEN /\ ui' = Append(ui, Alert("alert-error",
                        "Advanced Analytics temporarily unavailable", << >>, 0))
            /\ pc' = "finished"
            /\ done' = done \cup { "tab6" }
       ELSE IF RfmRaises(df)
       THEN Raise("tab6")
       ELSE /\ pc' = "finished"
            /\ ui' = ui
            /\ done' = done \cup { "tab6" }
    /\ UNCHANGED << file, df, is_valid, message, invalid_dates, filters, csv,
                    kpi, charts >>

\* The whole script, the multiselects left alone.
NextTabs ==
    \/ LoadAndValidate
    \/ CoerceDates
    \/ Derive
    \/ DateFilter
    \/ FacetsUnselected
    \/ KPIs
    \/ Tabs
    \/ Tab6

\* The whole script over files whose rows differ in customer, day and
\* discount, and one file with two customers that differ in recency,
\* frequency and monetary value.
Tab6Rows ==
    [Order_Date : { Date(At(0, 0)), Date(At(1, 0)) },
     Customer_Name : { Str(<< "a" >>), Str(<< "b" >>) },
     City : { Str("Pune") },
     Product_Category : { Str("Books") },
     Product_Name : { Str("Pen") },
     Quantity : { Num(1) },
     Unit_Price : { Num(2) },
     Discount_Percent : { Num(10), Num(20) },
     Order_Status : { Str("Delivered") },
     Delivery_Days : { Num(2) }]

TwoCustomerFile ==
    [columns |-> RequiredSet, header |-> required_cols,
     rows |-> << [ SampleRow EXCEPT !.Discount_Percent = Num(20) ],
                 [ SampleRow EXCEPT !.Discount_Percent = Num(20),
                                    !.Order_Date = Date(At(1, 0)) ],
                 [ SampleRow EXCEPT !.Discount_Percent = Num(20),
                                    !.Customer_Name = Str(<< "b" >>) ] >>]

Tab6Files == ValidFiles(Tab6Rows, 1, MaxRows) \cup { TwoCustomerFile }

InitTab6 == InitWith(Tab6Files)
SpecTab6 == InitTab6 /\ [][NextTabs]_vars

\* Largest number of groups beyond the length of a ranking.
MaxExtraGroups == 2

\* Row number key of the ranking files: its city, product and customer are
\* those of that number.
RankRow(key, quantity, price) ==
    [ SampleRow EXCEPT !.City = Str(<< "City", key >>),
                       !.Product_Name = Str(<< "Product", key >>),
                       !.Customer_Name = Str([ j \in 1..key |-> "a" ]),
                       !.Quantity = Num(quantity),
                       !.Unit_Price = Num(price),
                       !.Discount_Percent = Num(0) ]

\* The whole script over files with few groups and with about TopN groups,
\* one more than TopN and more: every row has its own city, product and
\* customer, quantity 2 and one of three prices by turns, but for one row,
\* which has any of three quantities and three prices and may share the
\* groups of the first row.
RankFiles ==
    UNION { { [columns |-> RequiredSet, header |-> required_cols,
               rows |-> [ i \in 1..k |->
                            IF i = j
                            THEN RankRow(IF shared THEN 1 ELSE j, q, p)
                            ELSE RankRow(i, 2, 1 + (i % 3)) ]] :
                j \in 1..k, shared \in BOOLEAN, q \in { 1, 2, 9 },
                p \in { 0, 1, 3 } } :
            k \in (1..3) \cup ((TopN - 1)..(TopN + MaxExtraGroups)) }

InitRank == InitWith(RankFiles)
SpecRank == InitRank /\ [][NextTabs]_vars

\* The whole script, tabs included, over the files of rows in three months.
SpecMonthTabs == InitMonths /\ [][NextTabs]_vars

\* ------------------------------------------------------------------ claims

\* The row of the uploaded file a row of the working table came from.
RawOf(r) == file.rows[r[Index].n + 1]

\* The working table carries the derived columns.
Derived == "derive" \in done

\* What a raw cell is worth as a number: its value when it is a number or
\* reads as one, 0 otherwise.
Parses(c) == c.t = "num" \/ (c.t = "str" /\ c.s \in DOMAIN NumericText)
NumberOr0(c) ==
    IF c.t = "num" THEN c.n
    ELSE IF c.t = "str" /\ c.s \in DOMAIN NumericText THEN NumericText[c.s]
    ELSE 0
Clamp(x, lo, hi) == IF x < lo THEN lo ELSE IF x > hi THEN hi ELSE x

\* C1: validation fails exactly when some required column has no column of
\* exactly that name in the file; the message then names every absent
\* required column, each once and in the order of the required list;
\* otherwise validation reports success.
C1_ValidationNamesEveryAbsentColumn ==
    "validate" \in done =>
        LET absent == { c \in RequiredSet : c \notin file.columns }
            named == { message.names[i] : i \in 1..Len(message.names) }
        IN  /\ is_valid = (absent = {})
            /\ absent # {} =>
                 /\ message.text = "Missing required columns"
                 /\ named = absent
                 /\ Len(message.names) = Cardinality(absent)
                 /\ ui[1].cls = "alert-error" /\ ui[1].names = message.names
            /\ absent = {} => message.text = "Data validation successful"

\* Validation has failed on a file that lacks several required columns, one
\* of them present only under a name of another case.
C1_Witness ==
    /\ "validate" \in done
    /\ ~is_valid
    /\ "order_date" \in file.columns
    /\ { "Order_Date", "City", "Delivery_Days" } \cap file.columns = {}
    /\ Len(message.names) = 3

\* C2: after a failed validation the run has stopped with nothing but the
\* missing-columns error rendered: no date coercion, derived column, filter,
\* export or aggregate was computed, and the generic handler did not run.
C2_FailedValidationHalts ==
    ("validate" \in done /\ ~is_valid) =>
        /\ pc = "stopped"
        /\ done = { "validate" }
        /\ df = WithIndex(file.rows)
        /\ invalid_dates = 0
        /\ date_range = << >>
        /\ city = {} /\ category = {} /\ order_status = {}
        /\ value_category = {}
        /\ csv = << >>
        /\ kpi = NoKpi
        /\ ui = << Alert("alert-error", "Missing required columns",
                         message.names, 0) >>

\* The run has stopped on a file that lacks a required column.
C2_Witness ==
    /\ pc = "stopped"
    /\ ~is_valid
    /\ ~(RequiredSet \subseteq file.columns)
    /\ Len(ui) = 1

\* C3: in every derived row Quantity, Unit_Price and Discount_Percent are
\* numbers: the raw value when it is or reads as a number, 0 when it does not
\* parse or is missing; Discount_Percent is that number clamped to [0, 100],
\* and Discount_Amount is computed from the clamped value.
C3_NumericCoercion ==
    Derived =>
        \A i \in 1..Len(df) :
            LET r == df[i]
                raw == RawOf(r)
            IN  /\ \A col \in { "Quantity", "Unit_Price", "Discount_Percent" } :
                       /\ r[col].t = "num"
                       /\ ~Parses(raw[col]) =>  r[col].n = 0
                /\ r["Quantity"].n = NumberOr0(raw["Quantity"])
                /\ r["Unit_Price"].n = NumberOr0(raw["Unit_Price"])
                /\ r["Discount_Percent"].n =
                       Clamp(NumberOr0(raw["Discount_Percent"]), 0, 100)
                /\ r["Discount_Percent"].n >= 0
                /\ r["Discount_Percent"].n <= 100
                /\ r["Discount_Amount"].n * 100 =
                       r["Total_Amount"].n
                         * Clamp(NumberOr0(raw["Discount_Percent"]), 0, 100)

\* A derived row whose raw quantity did not parse and whose raw discount
\* was above 100.
C3_Witness ==
    /\ Derived
    /\ \E i \in 1..Len(df) :
          /\ RawOf(df[i])["Quantity"] = Str("abc")
          /\ RawOf(df[i])["Discount_Percent"] = Num(150)
          /\ df[i]["Quantity"] = Num(0)
          /\ df[i]["Discount_Percent"] = Num(100)

\* The three equalities of C4 for one derived row (amounts are in 1/Scale).
MoneyEquations(r) ==
    LET raw == RawOf(r)
        q == NumberOr0(raw["Quantity"])
        p == NumberOr0(raw["Unit_Price"])
        d == Clamp(NumberOr0(raw["Discount_Percent"]), 0, 100)
    IN  /\ r["Total_Amount"].n = q * p * Scale
        /\ r["Discount_Amount"].n * 100 = r["Total_Amount"].n * d
        /\ r["Final_Sales_Amount"].n * 100 = q * p * (100 - d) * Scale

\* C4 as stated: the three equalities, and Final_Sales_Amount <= Total_Amount
\* for every row, negative quantities and prices included.
C4_FinalNeverAboveTotal ==
    Derived =>
        \A i \in 1..Len(df) :
            /\ MoneyEquations(df[i])
            /\ df[i]["Final_Sales_Amount"].n <= df[i]["Total_Amount"].n

\* C4, amended: the three equalities hold for every row, and
\* Final_Sales_Amount <= Total_Amount whenever Total_Amount >= 0; for a
\* negative Total_Amount the order is the reverse.
C4_MoneyFields ==
    Derived =>
        \A i \in 1..Len(df) :
            /\ MoneyEquations(df[i])
            /\ df[i]["Total_Amount"].n >= 0 =>
                 df[i]["Final_Sales_Amount"].n <= df[i]["Total_Amount"].n
            /\ df[i]["Total_Amount"].n <= 0 =>
                 df[i]["Final_Sales_Amount"].n >= df[i]["Total_Amount"].n

\* The spec's example row: quantity 2, unit price 15000, discount 10 gives
\* 30000, 3000 and 27000.
C4_Witness ==
    /\ Derived
    /\ \E i \in 1..Len(df) :
          /\ RawOf(df[i])["Quantity"] = Num(2)
          /\ RawOf(df[i])["Unit_Price"] = Num(15000)
          /\ RawOf(df[i])["Discount_Percent"] = Num(10)
          /\ df[i]["Total_Amount"].n = 30000 * Scale
          /\ df[i]["Discount_Amount"].n = 3000 * Scale
          /\ df[i]["Final_Sales_Amount"].n = 27000 * Scale

\* C5: Order_Value_Category is one of the three categories and is decided by
\* Final_Sales_Amount alone: High Value iff it is >= 30000, Medium Value iff
\* it is >= 10000 and < 30000, Low Value iff it is < 10000.
C5_ValueCategorySteps ==
    Derived =>
        \A i \in 1..Len(df) :
            LET f == df[i]["Final_Sales_Amount"].n
                c == df[i]["Order_Value_Category"]
            IN  /\ c \in ValueCategories
                /\ (c = Str("High Value")) <=> (f >= 30000 * Scale)
                /\ (c = Str("Medium Value")) <=>
                       (f >= 10000 * Scale /\ f < 30000 * Scale)
                /\ (c = Str("Low Value")) <=> (f < 10000 * Scale)

\* A derived row whose final amount is exactly 10000 and is Medium Value.
C5_Witness ==
    /\ Derived
    /\ \E i \in 1..Len(df) :
          /\ df[i]["Final_Sales_Amount"].n = 10000 * Scale
          /\ df[i]["Order_Value_Category"] = Str("Medium Value")

\* C6: Delivery_Status is one of three values and is decided by Order_Status
\* alone: Not Delivered iff Cancelled, Returned iff Returned, Delivered for
\* every other status, whatever Delivery_Days is.
C6_DeliveryStatus ==
    Derived =>
        \A i \in 1..Len(df) :
            LET s == df[i]["Order_Status"]
                c == df[i]["Delivery_Status"]
            IN  /\ c \in { Str("Not Delivered"), Str("Returned"),
                           Str("Delivered") }
                /\ (c = Str("Not Delivered")) <=> (s = Str("Cancelled"))
                /\ (c = Str("Returned")) <=> (s = Str("Returned"))
                /\ (c = Str("Delivered")) <=>
                       (s \notin { Str("Cancelled"), Str("Returned") })

\* A cancelled order with a delivery of two days is Not Delivered.
C6_Witness ==
    /\ Derived
    /\ \E i \in 1..Len(df) :
          /\ df[i]["Order_Status"] = Str("Cancelled")
          /\ df[i]["Delivery_Days"] = Num(2)
          /\ df[i]["Delivery_Status"] = Str("Not Delivered")

\* C7: Fast_Delivery_Flag is one of NA, Fast Delivery, Normal Delivery: NA iff
\* Delivery_Days is missing, Fast Delivery iff it is present and <= 3, Normal
\* Delivery iff it is present and > 3.
C7_FastDeliveryFlag ==
    Derived =>
        \A i \in 1..Len(df) :
            LET dd == df[i]["Delivery_Days"]
                c == df[i]["Fast_Delivery_Flag"]
            IN  /\ c \in { Str("NA"), Str("Fast Delivery"),
                           Str("Normal Delivery") }
                /\ (c = Str("NA")) <=> (dd.t = "na")
                /\ (c = Str("Fast Delivery")) <=> (dd.t = "num" /\ dd.n <= 3)
                /\ (c = Str("Normal Delivery")) <=> (dd.t = "num" /\ dd.n > 3)

\* A derived row whose Delivery_Days is missing is flagged NA.
C7_Witness ==
    /\ Derived
    /\ \E i \in 1..Len(df) :
          /\ IsNa(RawOf(df[i])["Delivery_Days"])
          /\ df[i]["Fast_Delivery_Flag"] = Str("NA")

\* A raw Order_Date cell that parses as a date.
ParsesAsDate(c) == c.t = "date" \/ (c.t = "str" /\ c.s \in DOMAIN DateText)

RECURSIVE SumQuantity(_)
SumQuantity(rows) ==
    IF rows = << >> THEN 0
    ELSE NumberOr0(Head(rows)["Quantity"]) + SumQuantity(Tail(rows))

NoFacetSelected ==
    city = {} /\ category = {} /\ order_status = {} /\ value_category = {}

\* C8: the rows whose Order_Date does not parse are counted and the count is
\* reported, and they are retained for the aggregates that do not depend on
\* the date: with no filter applied, total orders and items sold count every
\* row of the file.
C8_InvalidDateRowsRetained ==
    LET bad == { i \in 1..Len(file.rows) :
                   ~ParsesAsDate(file.rows[i]["Order_Date"]) }
    IN  /\ "coerce" \in done =>
             /\ invalid_dates = Cardinality(bad)
             /\ bad # {} =>
                  \E k \in 1..Len(ui) :
                      /\ ui[k].cls = "alert-warning"
                      /\ ui[k].n = Cardinality(bad)
        /\ (pc = "done" /\ Len(date_range) # 2 /\ NoFacetSelected) =>
             /\ kpi.total_orders = Len(file.rows)
             /\ kpi.total_items = SumQuantity(file.rows)

\* The membership test of C9 for one row under a selection.
PassesFacets(r, c, cat, st, vc) ==
    /\ c = {} \/ r["City"] \in c
    /\ cat = {} \/ r["Product_Category"] \in cat
    /\ st = {} \/ r["Order_Status"] \in st
    /\ vc = {} \/ r["Order_Value_Category"] \in vc

\* C9: the facet filter returns exactly the rows that, for each facet with a
\* non-empty selection, have that facet's value among the selected values, in
\* the order they had; with no selection at all the table is unchanged.
C9_FacetFilter ==
    [][ (pc = "facets" /\ pc' = "kpis") =>
          LET c == city'
              cat == category'
              st == order_status'
              vc == value_category'
          IN  /\ df' = SelectSeq(df, LAMBDA r : PassesFacets(r, c, cat, st, vc))
              /\ (c = {} /\ cat = {} /\ st = {} /\ vc = {}) => df' = df
      ]_vars

\* Two facets are selected, a third is not, and the filter has kept one row
\* of a two-row table.
C9_Witness ==
    /\ pc = "kpis"
    /\ city # {} /\ value_category # {} /\ category = {}
    /\ Len(file.rows) = 2
    /\ Len(df) = 1

\* C10: the date-range filter keeps exactly the rows whose order date falls,
\* as a calendar day, between the selected start day and end day, both
\* included, whatever the time of day.
C10_DateRangeByDay ==
    [][ (pc = "date_filter" /\ pc' = "facets" /\ Len(date_range') = 2) =>
          LET range == date_range'
          IN  df' = SelectSeq(df, LAMBDA r :
                        /\ DayOf(r["Order_Date"].n) >= range[1]
                        /\ DayOf(r["Order_Date"].n) <= range[2])
      ]_vars

\* C11: filtering is idempotent: the date-range filter and the facet
\* filters, applied with the selections of the run to the table they have
\* produced, give that table again.
C11_FilterIdempotent ==
    "facets" \in done =>
        LET dated == IF Len(date_range) = 2
                     THEN DateRangeFilter(df, date_range)
                     ELSE df
        IN  FacetFilter(dated, city, category, order_status, value_category)
              = df

\* A date range and a city are selected, and the filters have kept one row
\* of two.
C11_Witness ==
    /\ "facets" \in done
    /\ Len(date_range) = 2
    /\ city # {}
    /\ Len(file.rows) = 2 /\ invalid_dates = 0
    /\ Len(df) = 1

\* The empty-result warning of line 264.
NoDataWarning ==
    Alert("alert-warning", "No data matches your filter criteria", << >>, 0)

\* The filters of the run have left no row of a table that had some.
FiltersMatchNothing ==
    pc = "kpis" /\ date_range # << >> /\ Len(df) = 0

\* C12 as stated: when the filters match no record, no exception is raised,
\* the empty-result warning is rendered, and the aggregates are computed
\* with total_sales = 0 and total_orders = 0.
C12_EmptyResultDefaults ==
    [][ FiltersMatchNothing =>
          /\ pc' # "error"
          /\ ui' = Append(ui, NoDataWarning)
          /\ "kpis" \in done'
          /\ kpi'.total_sales = 0 /\ kpi'.total_orders = 0
      ]_vars

\* C12: when the filters match no record of a non-empty table, no exception
\* is raised: the export holds the header line alone, the empty-result
\* warning is rendered and the run stops there, before any aggregate is
\* computed.
C12_EmptyResultStops ==
    [][ FiltersMatchNothing =>
          /\ pc' = "stopped"
          /\ ui' = Append(ui, NoDataWarning)
          /\ \A i \in 1..Len(ui') : ui'[i].text # "Error"
          /\ Len(csv') = 1
          /\ "kpis" \notin done' /\ kpi' = NoKpi
      ]_vars

\* A run has stopped on the warning after the value-category selection left
\* no row of a table with one.
C12_Witness ==
    /\ pc = "stopped" /\ is_valid
    /\ date_range # << >>
    /\ value_category # {}
    /\ Len(df) = 0
    /\ ui[Len(ui)] = NoDataWarning

\* A figure that is a number: not NaN, not an infinity.
Finite(c) == c.t \in { "num", "ratio" }

\* The quotients lines 267-360 evaluate for the KPI cards.
RatioFields ==
    { "avg_order", "avg_delivery_days", "conversion_rate", "return_rate",
      "sales_growth", "orders_per_customer", "items_per_order",
      "discount_share", "discount_delta" }

\* C13: for every non-empty filtered table, one with total sales 0 or with
\* no delivery days included, the KPI step does not raise and every
\* quotient it evaluates is a finite number.
C13_EveryRatioFinite ==
    /\ "facets" \in done => pc # "error"
    /\ "kpis" \in done => \A f \in RatioFields : Finite(kpi[f])

\* The rows of a table, as a set.
RowsOf(table) == { table[i] : i \in 1..Len(table) }

\* C14: the derived columns are attached in one step, before any filter is
\* read or applied, and from then on no step changes a row: every later
\* table consists of rows of the derived table, unchanged in every raw and
\* derived column and in their order.
C14_DerivedValuesFixed ==
    [][ /\ (~Derived /\ Derived') =>
              /\ date_range' = << >> /\ city' = {} /\ category' = {}
              /\ order_status' = {} /\ value_category' = {}
              /\ done' \cap { "date_filter", "facets", "kpis" } = {}
              /\ \A i \in 1..Len(df') : \A k \in 1..Len(derived_cols) :
                    derived_cols[k] \in DOMAIN df'[i]
        /\ Derived =>
              /\ Derived' /\ pc' # "derive"
              /\ df' = SelectSeq(df, LAMBDA r : r \in RowsOf(df'))
      ]_vars

\* The run has computed its KPIs over one row of a derived table of two,
\* the other removed by the city filter.
C14_Witness ==
    /\ pc = "done"
    /\ Len(file.rows) = 2 /\ invalid_dates = 0
    /\ Len(date_range) = 2 /\ city # {}
    /\ Len(df) = 1
    /\ df[1]["Final_Sales_Amount"] = Num(10800 * Scale)

\* C15: the export holds one line per row of the validated, derived and
\* filtered table, in its order, the rows the KPIs are computed over, none
\* when the table is empty; each line has a field for every column of the
\* file and every derived column; the header line is the file's columns in
\* the file's order followed by the derived columns in one fixed order.
C15_ExportIsFilteredTable ==
    "export" \in done =>
        LET header == csv[1]
            lines == Tail(csv)
            added == << "Clean_Customer_Name", "Total_Amount",
                        "Discount_Amount", "Final_Sales_Amount",
                        "Order_Value_Category", "Delivery_Status",
                        "Fast_Delivery_Flag", "Month", "Year", "Quarter",
                        "Day_of_Week", "Week_of_Year", "Profit_Margin" >>
            names == { header[k] : k \in 1..Len(header) }
        IN  /\ header = file.header \o added
            /\ file.columns \subseteq names
            /\ Len(lines) = Len(df)
            /\ \A i \in 1..Len(lines) :
                  /\ DOMAIN lines[i] = names
                  /\ \A col \in names : lines[i][col] = CsvField(df[i][col])
            /\ "kpis" \in done => kpi.total_orders = Len(lines)
            /\ pc = "stopped" => lines = << >>

\* The KPIs have been computed over the one row the city filter kept of a
\* two-row table, and the export holds that row.
C15_Witness ==
    /\ pc = "done"
    /\ Len(file.rows) = 2 /\ invalid_dates = 0
    /\ city # {}
    /\ Len(csv) = 2
    /\ csv[2]["City"] \in city
    /\ csv[2]["Final_Sales_Amount"].n = 10800 * Scale

\* The words of a text: its maximal runs of characters that are not
\* whitespace, in order.
RECURSIVE SplitWords(_, _)
SplitWords(s, word) ==
    IF s = << >> THEN (IF word = << >> THEN << >> ELSE << word >>)
    ELSE IF Head(s) \in Whitespace
         THEN (IF word = << >> THEN << >> ELSE << word >>)
                 \o SplitWords(Tail(s), << >>)
         ELSE SplitWords(Tail(s), Append(word, Head(s)))

\* A word with each letter that starts it or follows a non-letter in upper
\* case and every other letter in lower case.
Capitalised(word) ==
    [ i \in 1..Len(word) |->
        IF i = 1 \/ ~IsLetter(word[i - 1]) THEN Upper(word[i])
        ELSE Lower(word[i]) ]

RECURSIVE JoinWords(_)
JoinWords(words) ==
    IF words = << >> THEN << >>
    ELSE IF Len(words) = 1 THEN Capitalised(words[1])
    ELSE Capitalised(words[1]) \o << " " >> \o JoinWords(Tail(words))

\* The raw name of every derived row is trimmed, its whitespace runs are
\* collapsed and it is title-cased; a missing name reads "Nan".
CleanNameIsNormalised ==
    \A i \in 1..Len(df) :
        LET raw == RawOf(df[i])["Customer_Name"]
            clean == df[i]["Clean_Customer_Name"]
        IN  /\ clean.t = "str"
            /\ raw.t = "str" => clean.s = JoinWords(SplitWords(raw.s, << >>))
            /\ IsNa(raw) => clean.s = << "N", "a", "n" >>

\* C16 as stated: the clean name is the normalised raw name, and it is not
\* empty whenever the raw name is not empty, names made only of whitespace
\* included.
C16_CleanNameNeverEmpty ==
    Derived =>
        /\ CleanNameIsNormalised
        /\ \A i \in 1..Len(df) :
              LET raw == RawOf(df[i])["Customer_Name"]
              IN  (raw.t = "str" /\ raw.s # << >>) =>
                      df[i]["Clean_Customer_Name"].s # << >>

\* C16: the clean name is the normalised raw name; it is not empty exactly
\* when the raw name has a character that is not whitespace.
C16_CleanName ==
    Derived =>
        /\ CleanNameIsNormalised
        /\ \A i \in 1..Len(df) :
              LET raw == RawOf(df[i])["Customer_Name"]
              IN  raw.t = "str" =>
                      ( df[i]["Clean_Customer_Name"].s # << >>
                          <=> \E k \in 1..Len(raw.s) :
                                 raw.s[k] \notin Whitespace )

\* A name of two words with a run of two whitespace characters between
\* them has been cleaned.
C16_Witness ==
    /\ Derived
    /\ RawOf(df[1])["Customer_Name"] = Str(<< "a", " ", "\t", "B" >>)
    /\ df[1]["Clean_Customer_Name"] = Str(<< "A", " ", "B" >>)

\* C17: on every table that passed validation, whatever its cells hold, the
\* derivation step completes without raising and leaves every row with
\* every derived column.
C17_DerivationTotal ==
    (is_valid /\ "coerce" \in done /\ pc # "derive") =>
        /\ pc # "error"
        /\ Derived
        /\ \A i \in 1..Len(df) : \A k \in 1..Len(derived_cols) :
              derived_cols[k] \in DOMAIN df[i]

\* The figure c is the quotient a / b.
IsQuotient(c, a, b) == c.t = "ratio" /\ c.n * b = a * c.s

\* C18: over a non-empty filtered table, the conversion rate is 100 times
\* the share of rows whose Order_Status is Delivered and the return rate
\* 100 times the share whose Order_Status is Returned, both over all rows;
\* each lies in [0, 100] and their sum is at most 100; the average delivery
\* days is the mean of Delivery_Days over the rows that have one.
C18_RatesAndDeliveryMean ==
    "kpis" \in done =>
        LET n == Len(df)
            delivered == { i \in 1..n : df[i]["Order_Status"] = Str("Delivered") }
            returned == { i \in 1..n : df[i]["Order_Status"] = Str("Returned") }
            days == SelectSeq(Column(df, "Delivery_Days"),
                              LAMBDA c : c.t = "num")
            conv == kpi.conversion_rate
            ret == kpi.return_rate
        IN  /\ n > 0
            /\ IsQuotient(conv, 100 * Cardinality(delivered), n)
            /\ IsQuotient(ret, 100 * Cardinality(returned), n)
            /\ 0 <= conv.n /\ conv.n <= 100 * conv.s
            /\ 0 <= ret.n /\ ret.n <= 100 * ret.s
            /\ conv.n * ret.s + ret.n * conv.s <= 100 * conv.s * ret.s
            /\ days # << >> =>
                  IsQuotient(kpi.avg_delivery_days, SumN(days), Len(days))

\* The KPIs of a table of one Delivered row without delivery days and one
\* Pending row delivered in 5 days: conversion rate 50, return rate 0,
\* average delivery days 5.
C18_Witness ==
    /\ pc = "done"
    /\ Len(df) = 2
    /\ df[1]["Order_Status"] = Str("Delivered") /\ IsNa(df[1]["Delivery_Days"])
    /\ df[2]["Order_Status"] = Str("Pending") /\ df[2]["Delivery_Days"] = Num(5)
    /\ IsQuotient(kpi.conversion_rate, 50, 1)
    /\ IsQuotient(kpi.return_rate, 0, 1)
    /\ IsQuotient(kpi.avg_delivery_days, 5, 1)

\* C19: once the exported file has been offered to the uploader, the run
\* that ingests it has a table with one row per exported line and, in every
\* exported column, the value that was exported.
C19_RoundTrip ==
    "upload_export" \in done =>
        LET header == csv[1]
            lines == Tail(csv)
        IN  /\ pc \notin { "no_file", "error" }
            /\ Len(df) = Len(lines)
            /\ \A i \in 1..Len(df) : \A k \in 1..Len(header) :
                  CsvField(df[i][header[k]]) = lines[i][header[k]]

\* The sum of Final_Sales_Amount over the rows of a table dated in month m.
SalesOf(table, m) ==
    SumN(Column(SelectSeq(table, LAMBDA r :
                    MonthOf(DayOf(r["Order_Date"].n)) = m),
                "Final_Sales_Amount"))

\* Arguments of calculate_growth_rate: missing, zero, negative, positive.
GrowthArgs == { NA, Num(0), Num(-50), Num(100), Num(150) }

\* The expected growth of current over previous.
IsGrowth(g, current, previous) ==
    IF IsNa(previous) \/ IsNa(current) \/ previous.n = 0 THEN g = Num(0)
    ELSE IsQuotient(g, (current.n - previous.n) * 100, previous.n)

\* C20: calculate_growth_rate(current, previous) is 0 when previous is 0 or
\* an argument is missing, else (current - previous) / previous * 100; the
\* month-over-month growth KPI is 0 when the rows of the filtered table
\* fall in fewer than two months, else the growth of the sales of the last
\* month over the sales of the latest month before it that has a row.
C20_SalesGrowth ==
    /\ \A c \in GrowthArgs, p \in GrowthArgs :
          IsGrowth(calculate_growth_rate(c, p), c, p)
    /\ "kpis" \in done =>
          LET month(i) == MonthOf(DayOf(df[i]["Order_Date"].n))
              months == { month(i) : i \in 1..Len(df) }
          IN  IF Cardinality(months) < 2 THEN kpi.sales_growth = Num(0)
              ELSE LET last == MaxOf(months)
                       before == MaxOf(months \ { last })
                   IN  IsGrowth(kpi.sales_growth,
                                Num(SalesOf(df, last)),
                                Num(SalesOf(df, before)))

\* The first row of the table is of the third month with sales of 2, the
\* second of the first month with sales of 4: the growth is -50.
C20_Witness ==
    /\ pc = "done"
    /\ Len(df) = 2
    /\ df[1]["Order_Date"] = Date(At(2 * DaysPerMonth, 0))
    /\ df[1]["Quantity"] = Num(1)
    /\ df[2]["Order_Date"] = Date(At(0, 0))
    /\ df[2]["Quantity"] = Num(2)
    /\ IsQuotient(kpi.sales_growth, -50, 1)

\* The message of the handler of the Advanced Analytics tab.
Tab6Message ==
    Alert("alert-error", "Advanced Analytics temporarily unavailable",
          << >>, 0)

\* C21: when a part of the Advanced Analytics tab raises, the tab's handler
\* renders its message, the handler of the script does not run, and the KPIs
\* and the charts of the other tabs stay as they were rendered.
C21_Tab6Contained ==
    ("tabs" \in done /\ pc # "tab6"
        /\ (DiscountCutRaises(df) \/ RfmRaises(df))) =>
        /\ pc = "finished"
        /\ ui[Len(ui)] = Tab6Message
        /\ \A i \in 1..Len(ui) : ui[i].text # "Error"
        /\ "kpis" \in done /\ kpi = Aggregates(df)
        /\ charts # NoCharts

\* The sum of Final_Sales_Amount over the rows of the table with a key.
SalesOfKey(table, col, key) ==
    SumN(Column(SelectSeq(table, LAMBDA r : r[col] = key),
                "Final_Sales_Amount"))

\* rank is a top-TopN ranking by sales of the groups of the table by col.
IsSalesRanking(rank, table, col) ==
    LET keys == Values(table, col)
        listed == { rank[i].Key : i \in 1..Len(rank) }
    IN  /\ Len(rank) = IF Cardinality(keys) < 15 THEN Cardinality(keys) ELSE 15
        /\ listed \subseteq keys
        /\ Cardinality(listed) = Len(rank)
        /\ \A i \in 1..Len(rank) :
              rank[i].Sales = SalesOfKey(table, col, rank[i].Key)
        /\ \A i \in 1..(Len(rank) - 1) : rank[i].Sales >= rank[i + 1].Sales
        /\ \A key \in keys \ listed : \A i \in 1..Len(rank) :
              SalesOfKey(table, col, key) <= rank[i].Sales

\* C22: each of the rankings by sales (cities, products, customers) lists
\* min(15, number of groups) distinct groups of the filtered table, each
\* with the sum of Final_Sales_Amount over its rows, in non-increasing order
\* of that sum, and no group left out has a greater sum than a listed one.
C22_TopBySales ==
    "tabs" \in done =>
        /\ IsSalesRanking(charts.city_sales, df, "City")
        /\ IsSalesRanking(charts.prod, df, "Product_Name")
        /\ IsSalesRanking(charts.cust, df, "Clean_Customer_Name")

\* Sixteen products of unequal sales, the one of the first row of no sales:
\* the ranking lists fifteen, from greater sales to smaller, and leaves out
\* the product of no sales.
C22_Witness ==
    /\ "tabs" \in done
    /\ Len(df) = 16
    /\ Cardinality(Values(df, "Product_Name")) = 16
    /\ Len(charts.prod) = 15
    /\ charts.prod[1].Sales > charts.prod[15].Sales
    /\ \A i \in 1..15 : charts.prod[i].Key # df[1]["Product_Name"]
    /\ df[1]["Final_Sales_Amount"].n = 0

\* The sum of Quantity over the rows of the table with a product.
QuantityOfProduct(table, product) ==
    SumN(Column(SelectSeq(table, LAMBDA r : r["Product_Name"] = product),
                "Quantity"))

\* C23: no product left out of the list of products by quantity sold has a
\* greater total Quantity, over the filtered table, than a product of the
\* list, however many products there are.
C23_TopByQuantity ==
    "tabs" \in done =>
        LET listed == { charts.prod_qty[i].Key :
                          i \in 1..Len(charts.prod_qty) }
        IN  \A out \in Values(df, "Product_Name") \ listed :
                \A in \in listed :
                    QuantityOfProduct(df, out) <= QuantityOfProduct(df, in)

\* C24: in every row of the derived table Profit_Margin is
\* Final_Sales_Amount / Total_Amount * 100 when Total_Amount is not 0, and
\* 0 when it is 0.
C24_ProfitMargin ==
    Derived =>
        \A i \in 1..Len(df) :
            LET margin == df[i]["Profit_Margin"]
                total == df[i]["Total_Amount"].n
                final == df[i]["Final_Sales_Amount"].n
            IN  IF total = 0 THEN margin = Num(0)
                ELSE \/ margin.t = "num" /\ margin.n * total = final * 100
                     \/ IsQuotient(margin, final * 100, total)

\* The sum of a field over the rows of an aggregate.
SumField(rows, field) ==
    SumN([ k \in 1..Len(rows) |-> Num(rows[k][field]) ])

\* C25: the monthly aggregate of a non-empty filtered table partitions it:
\* every row is of exactly one Month group, the monthly sales add up to the
\* total_sales KPI and the monthly order counts to the total_orders KPI.
C25_MonthlyPartition ==
    "tabs" \in done =>
        /\ Len(df) > 0
        /\ \A i \in 1..Len(df) :
              Cardinality({ k \in 1..Len(charts.monthly) :
                  charts.monthly[k].Month = df[i]["Month"] }) = 1
        /\ SumField(charts.monthly, "Sales") = kpi.total_sales
        /\ SumField(charts.monthly, "Orders") = kpi.total_orders
        /\ SumN(Column(monthly_df(df), "Final_Sales_Amount"))
              = kpi.total_sales
        /\ SumN(Column(monthly_df(df), "Order_Date")) = kpi.total_orders

\* Two rows of different months with sales: two groups of one order each.
C25_Witness ==
    /\ "tabs" \in done
    /\ Len(df) = 2
    /\ Len(charts.monthly) = 2
    /\ charts.monthly[1].Sales > 0
    /\ charts.monthly[2].Sales > 0
    /\ kpi.total_orders = 2

=============================================================================
